---- MODULE Spec2Model ----
(***************************************************************************)
(* Model of ib.opt.receiver: the Receiver (Router) with its Listener       *)
(* Registry, its Type Registry, dispatch, the registration API, the        *)
(* generated dispatch surface (messageMethod / ReceiverType) and the       *)
(* hand-written error entry points.                                        *)
(***************************************************************************)
EXTENDS Integers, Sequences, FiniteSets, TLC

\* ------------------------------------------------------------------ bounds
NumListeners == 2
MaxTypes == 1
MaxArgs == 3

\* listeners are numbered from 1; 0 stands for a call without a listener argument
Listeners == 1..NumListeners

\* ------------------------------------------------------------------ values
\* Positional values handed to the entry points: two integers and a string.
IntVal(n) == [kind |-> "int", v |-> n]
StrVal(s) == [kind |-> "str", v |-> s]
Values == {IntVal(7), IntVal(502), StrVal("bad gateway")}

RECURSIVE SeqsUpTo(_, _)
SeqsUpTo(S, n) ==
    IF n = 0 THEN {<<>>}
    ELSE LET shorter == SeqsUpTo(S, n - 1)
         IN shorter \cup {Append(s, x) : s \in {t \in shorter : Len(t) = n - 1}, x \in S}

ArgSeqs == SeqsUpTo(Values, MaxArgs)

\* ------------------------------------------------------------ message types
\* An object as key() sees it: a class exposes __name__, a string does not
\* and renders (str) as itself.  slots are the declared fields of a class.
TypeObj(n, fields) ==
    [hasName |-> TRUE, name |-> n, str |-> "<class '" \o n \o "'>", slots |-> fields]
StrObj(s) == [hasName |-> FALSE, name |-> "", str |-> s, slots |-> {}]

TickPrice == TypeObj("TickPrice", {"tickerId", "field", "price"})
Error == TypeObj("Error", {"id", "errorCode", "errorMsg"})

\* the process-wide default Type Registry (ib.opt.message.registry)
registry == ("tickPrice" :> TickPrice) @@ ("error" :> Error)

\* the empty mapping
EmptyMap == <<>>

\* the (name, argnames) pairs of ib.opt.message.wrapperMethods()
wrapperMethods ==
    << <<"nextValidId", <<"orderId">> >>,
       <<"tickPrice", <<"tickerId", "field", "price">> >> >>

\* Message(**mapping): rejects keys that are not declared fields
Accepts(mtype, mapping) == DOMAIN mapping \subseteq mtype.slots
Construct(mtype, mapping, serial) ==
    [serial |-> serial, type |-> mtype.name, fields |-> mapping]

\* --------------------------------------------------------------- arguments
\* optional constructor argument: absent (None) or a mapping
None == [given |-> FALSE, val |-> EmptyMap]
Some(m) == [given |-> TRUE, val |-> m]
Truthy(arg) == arg.given /\ DOMAIN arg.val # {}

\* what callers pass as *types: the classes of the registry and a name
TypeArgs == {TickPrice, Error, StrObj("TickPrice")}
TypeSeqs == SeqsUpTo(TypeArgs, MaxTypes)

Names == {"tickPrice", "error", "nosuch"}
Mappings == {EmptyMap, ("tickerId" :> IntVal(7)), ("errorMsg" :> StrVal("bad gateway"))}

\* ----------------------------------------------------------------- helpers
Contains(s, l) == \E i \in 1..Len(s) : s[i] = l
Count(s, l) == Cardinality({i \in 1..Len(s) : s[i] = l})
IndexOf(s, l) == CHOOSE i \in 1..Len(s) : s[i] = l /\ \A j \in 1..(i - 1) : s[j] # l
\* list.remove(l): drops the first occurrence
Remove(s, l) ==
    LET i == IndexOf(s, l)
    IN [j \in 1..(Len(s) - 1) |-> IF j < i THEN s[j] ELSE s[j + 1]]
Min(a, b) == IF a <= b THEN a ELSE b

\* ----------------------------------------------------------------- Receiver
\* listeners, types: the two attributes of the Receiver.  regOrder, last:
\* history of the calls made on it.  behav: what each listener callable
\* does when it is invoked.  methods: the methods of the class as the
\* metaclass built it.  supplied: the types argument the constructor got.
\* peer: a second Receiver.  threads: callers inside register.
VARIABLES listeners, types, regOrder, last, behav, methods, supplied, peer, threads
vars == <<listeners, types, regOrder, last, behav, methods, supplied, peer, threads>>
\* what no method of one Receiver assigns
env == <<types, behav, methods, supplied, peer, threads>>

\* key that renders every object with str
keyStr(obj) == obj.str

key(obj) == IF obj.hasName THEN obj.name ELSE obj.str

Receiver_init(listenersArg, typesArg) ==
    [listeners |-> IF Truthy(listenersArg) THEN listenersArg.val ELSE EmptyMap,
     types |-> IF Truthy(typesArg) THEN typesArg.val ELSE registry]

\* register without the membership test
registerOneNoTest(ls, listener, mtype) ==
    LET k == key(mtype)
        cur == IF k \in DOMAIN ls THEN ls[k] ELSE <<>>
    IN [x \in DOMAIN ls \cup {k} |-> IF x = k THEN Append(cur, listener) ELSE ls[x]]

\* register that inserts at the front of the collection
registerOneFront(ls, listener, mtype) ==
    LET k == key(mtype)
        cur == IF k \in DOMAIN ls THEN ls[k] ELSE <<>>
        new == IF ~Contains(cur, listener) THEN <<listener>> \o cur ELSE cur
    IN [x \in DOMAIN ls \cup {k} |-> IF x = k THEN new ELSE ls[x]]

\* register that moves a listener already present to the end
registerOneMove(ls, listener, mtype) ==
    LET k == key(mtype)
        cur == IF k \in DOMAIN ls THEN ls[k] ELSE <<>>
        new == Append(SelectSeq(cur, LAMBDA x : x # listener), listener)
    IN [x \in DOMAIN ls \cup {k} |-> IF x = k THEN new ELSE ls[x]]

\* body of the loop of register for one mtype
\* register that keeps only the collection it touched
registerOneClobber(ls, listener, mtype) ==
    LET k == key(mtype)
        cur == IF k \in DOMAIN ls THEN ls[k] ELSE <<>>
    IN (k :> (IF Contains(cur, listener) THEN cur ELSE Append(cur, listener)))

registerOne(ls, listener, mtype) ==
    LET k == key(mtype)
        cur == IF k \in DOMAIN ls THEN ls[k] ELSE <<>>
        new == IF ~Contains(cur, listener) THEN Append(cur, listener) ELSE cur
    IN [x \in DOMAIN ls \cup {k} |-> IF x = k THEN new ELSE ls[x]]

RECURSIVE register(_, _, _)
register(ls, listener, ts) ==
    IF ts = <<>> THEN ls
    ELSE register(registerOne(ls, listener, Head(ts)), listener, Tail(ts))

\* unregister without the membership test: list.remove raises ValueError
unregisterOneNoTest(st, listener, mtype) ==
    IF st.raised # "none" THEN st
    ELSE LET k == key(mtype)
         IN IF k \notin DOMAIN st.ls THEN st
            ELSE IF Contains(st.ls[k], listener)
                 THEN [st EXCEPT !.ls = [st.ls EXCEPT ![k] = Remove(st.ls[k], listener)]]
                 ELSE [st EXCEPT !.raised = "ValueError"]

\* body of the loop of unregister for one mtype; st carries the registry and
\* the exception (if any) that ended the call
unregisterOne(st, listener, mtype) ==
    IF st.raised # "none" THEN st
    ELSE LET k == key(mtype)
         IN IF k \notin DOMAIN st.ls THEN st
            ELSE IF Contains(st.ls[k], listener)
                 THEN [st EXCEPT !.ls = [st.ls EXCEPT ![k] = Remove(st.ls[k], listener)]]
                 ELSE st

RECURSIVE unregisterLoop(_, _, _)
unregisterLoop(st, listener, ts) ==
    IF ts = <<>> THEN st
    ELSE unregisterLoop(unregisterOne(st, listener, Head(ts)), listener, Tail(ts))

unregister(ls, listener, ts) == unregisterLoop([ls |-> ls, raised |-> "none"], listener, ts)

\* self.types.values(), in one of the orders a dict may enumerate them
RECURSIVE Orderings(_)
Orderings(S) ==
    IF S = {} THEN {<<>>}
    ELSE UNION {{<<x>> \o s : s \in Orderings(S \ {x})} : x \in S}
values(ty) == Orderings(DOMAIN ty)
ValuesOf(ty, order) == [i \in 1..Len(order) |-> ty[order[i]]]

\* registerAll over self.types.keys() instead of self.types.values()
registerAllKeys(ls, ty, listener, order) ==
    register(ls, listener, [i \in 1..Len(order) |-> StrObj(order[i])])

registerAll(ls, ty, listener, order) == register(ls, listener, ValuesOf(ty, order))

unregisterAll(ls, ty, listener, order) == unregister(ls, listener, ValuesOf(ty, order))

\* ------------------------------------------------------- registration order
\* History: for every key, the listeners in the order of the registrations
\* that are in effect (a registration of a present listener takes no effect).
orderAdd(ro, listener, k) ==
    LET cur == IF k \in DOMAIN ro THEN ro[k] ELSE <<>>
    IN [x \in DOMAIN ro \cup {k} |->
          IF x = k THEN (IF Contains(cur, listener) THEN cur ELSE cur \o <<listener>>)
          ELSE ro[x]]
orderDel(ro, listener, k) ==
    IF k \notin DOMAIN ro THEN ro
    ELSE [ro EXCEPT ![k] = SelectSeq(ro[k], LAMBDA x : x # listener)]

RECURSIVE orderFold(_, _, _, _)
orderFold(ro, listener, ts, add) ==
    IF ts = <<>> THEN ro
    ELSE orderFold(IF add THEN orderAdd(ro, listener, key(Head(ts)))
                   ELSE orderDel(ro, listener, key(Head(ts))),
                   listener, Tail(ts), add)

\* ----------------------------------------------------------------- dispatch
NoEffect == [events |-> <<>>, constructed |-> <<>>, raised |-> "none"]
Raised(exc) == [events |-> <<>>, constructed |-> <<>>, raised |-> exc]

\* what a listener callable may do when it is invoked with a message
Plain == "plain"
RaisesValueError == "ValueError"
RaisesKeyError == "KeyError"
UnregistersItself == "unregister"
RegistersAgain == "reregister"

Event(ev, l, message) == [ev |-> ev, listener |-> l, msg |-> message]

\* listener(message): st is the Receiver (Listener Registry ls, its history
\* ro) and the run of the dispatch so far
invoke(st, l, mtype, message) ==
    LET called == Append(st.events, Event("call", l, message))
    IN CASE behav[l] \in {RaisesValueError, RaisesKeyError} ->
              [st EXCEPT !.events = Append(called, Event(behav[l], l, message)),
                         !.raised = behav[l]]
         [] behav[l] = UnregistersItself ->
              [st EXCEPT !.events = Append(called, Event("return", l, message)),
                         !.ls = unregister(st.ls, l, <<mtype>>).ls,
                         !.ro = orderDel(st.ro, l, key(mtype))]
         [] behav[l] = RegistersAgain ->
              [st EXCEPT !.events = Append(called, Event("return", l, message)),
                         !.ls = register(unregister(st.ls, l, <<mtype>>).ls, l, <<mtype>>),
                         !.ro = orderAdd(orderDel(st.ro, l, key(mtype)), l, key(mtype))]
         [] OTHER ->
              [st EXCEPT !.events = Append(called, Event("return", l, message))]

\* for listener in listeners: listener(message) -- the iterator holds a
\* position idx in the list object of the key, which the calls may change;
\* a call returns before the next one starts, an exception ends the loop
RECURSIVE fanout(_, _, _, _)
fanout(st, mtype, idx, message) ==
    IF st.raised # "none" \/ idx > Len(st.ls[key(mtype)]) THEN st
    ELSE fanout(invoke(st, st.ls[key(mtype)][idx], mtype, message), mtype, idx + 1, message)

\* the outcome of a dispatch that did not reach the fan-out
Ends(ls, exc) ==
    [ls |-> ls, ro |-> regOrder, events |-> <<>>, constructed |-> <<>>, raised |-> exc]

\* what the constructor of a message type raises for a mapping it rejects
ConstructFailure(mtype) == IF mtype.name = "Error" THEN "KeyError" ELSE "TypeError"

\* dispatch that looks the listeners up under the callback name
dispatchByName(ls, ty, name, mapping) ==
    IF name \notin DOMAIN ty THEN Ends(ls, "none")
    ELSE IF name \notin DOMAIN ls THEN Ends(ls, "none")
    ELSE LET mtype == ty[name]
         IN IF ~Accepts(mtype, mapping)
            THEN Ends(ls, ConstructFailure(mtype))
            ELSE LET message == Construct(mtype, mapping, 1)
                 IN fanout([Ends(ls, "none") EXCEPT !.constructed = <<message>>],
                           StrObj(name), 1, message)

\* dispatch without the except clause for the registry lookups
dispatchNoExcept(ls, ty, name, mapping) ==
    IF name \notin DOMAIN ty THEN Ends(ls, "KeyError")
    ELSE IF key(ty[name]) \notin DOMAIN ls THEN Ends(ls, "KeyError")
    ELSE LET mtype == ty[name]
         IN IF ~Accepts(mtype, mapping)
            THEN Ends(ls, ConstructFailure(mtype))
            ELSE LET message == Construct(mtype, mapping, 1)
                 IN fanout([Ends(ls, "none") EXCEPT !.constructed = <<message>>],
                           mtype, 1, message)

\* dispatch with the fan-out inside the try: a KeyError of a listener is
\* taken for a failed lookup
dispatchFanoutInTry(ls, ty, name, mapping) ==
    IF name \notin DOMAIN ty THEN Ends(ls, "none")
    ELSE IF key(ty[name]) \notin DOMAIN ls THEN Ends(ls, "none")
    ELSE LET mtype == ty[name]
         IN IF ~Accepts(mtype, mapping)
            THEN Ends(ls, ConstructFailure(mtype))
            ELSE LET message == Construct(mtype, mapping, 1)
                     run == fanout([Ends(ls, "none") EXCEPT !.constructed = <<message>>],
                                   mtype, 1, message)
                 IN IF run.raised = "KeyError" THEN [run EXCEPT !.raised = "none"] ELSE run

\* dispatch with the construction inside the try: a KeyError of the
\* constructor is taken for a failed lookup
dispatchConstructInTry(ls, ty, name, mapping) ==
    IF name \notin DOMAIN ty THEN Ends(ls, "none")
    ELSE IF key(ty[name]) \notin DOMAIN ls THEN Ends(ls, "none")
    ELSE LET mtype == ty[name]
         IN IF ~Accepts(mtype, mapping)
            THEN Ends(ls, IF ConstructFailure(mtype) = "KeyError" THEN "none"
                          ELSE ConstructFailure(mtype))
            ELSE LET message == Construct(mtype, mapping, 1)
                 IN fanout([Ends(ls, "none") EXCEPT !.constructed = <<message>>],
                           mtype, 1, message)

\* dispatch that looks the collection up with setdefault: a key without
\* collection gets an empty one
dispatchSetdefault(ls, ty, name, mapping) ==
    IF name \notin DOMAIN ty THEN Ends(ls, "none")
    ELSE LET mtype == ty[name]
             made == [x \in DOMAIN ls \cup {key(mtype)} |->
                         IF x \in DOMAIN ls THEN ls[x] ELSE <<>>]
         IN IF ~Accepts(mtype, mapping)
            THEN Ends(made, ConstructFailure(mtype))
            ELSE LET message == Construct(mtype, mapping, 1)
                 IN fanout([Ends(made, "none") EXCEPT !.constructed = <<message>>],
                           mtype, 1, message)

dispatch(ls, ty, name, mapping) ==
    IF name \notin DOMAIN ty THEN Ends(ls, "none")
    ELSE IF key(ty[name]) \notin DOMAIN ls THEN Ends(ls, "none")
    ELSE LET mtype == ty[name]
         IN IF ~Accepts(mtype, mapping)
            THEN Ends(ls, ConstructFailure(mtype))
            ELSE LET message == Construct(mtype, mapping, 1)
                 IN fanout([Ends(ls, "none") EXCEPT !.constructed = <<message>>],
                           mtype, 1, message)

\* --------------------------------------------------------- dispatch surface
\* dict(zip(argnames, args)): pairs up to the shorter length, a later pair
\* with the same name replaces an earlier one
Zip(argnames, args) ==
    LET n == Min(Len(argnames), Len(args))
    IN [f \in {argnames[i] : i \in 1..n} |->
          args[CHOOSE i \in 1..n : argnames[i] = f /\ \A j \in (i + 1)..n : argnames[j] # f]]

\* a closure that reads the loop variables of the metaclass when it is
\* called: every entry point then sees the last pair of the table
messageMethodLate(name, argnames) ==
    [kind |-> "generated",
     name |-> wrapperMethods[Len(wrapperMethods)][1],
     argnames |-> wrapperMethods[Len(wrapperMethods)][2]]

\* the closure messageMethod returns: it has captured name and argnames
messageMethod(name, argnames) ==
    [kind |-> "generated", name |-> name, argnames |-> argnames]

\* inner(self, *args) of a closure: the dispatch call it makes and its outcome
inner(closure, ls, ty, args) ==
    LET params == Zip(closure.argnames, args)
    IN [dispatched |-> <<[name |-> closure.name, mapping |-> params]>>,
        out |-> dispatch(ls, ty, closure.name, params)]

\* the entries of the class body of Receiver that are entry points
ClassBody == ("error" :> [kind |-> "overloaded", name |-> "error", argnames |-> <<>>])

\* ReceiverType.__new__: namespace[mname] = messageMethod(mname, margs) for
\* every pair of the table, in the table's order
RECURSIVE ReceiverType_new(_, _)
ReceiverType_new(namespace, table) ==
    IF table = <<>> THEN namespace
    ELSE LET mname == Head(table)[1]
             margs == Head(table)[2]
         IN ReceiverType_new(
                [m \in DOMAIN namespace \cup {mname} |->
                    IF m = mname THEN messageMethod(mname, margs) ELSE namespace[m]],
                Tail(table))

\* the methods of the class Receiver once the metaclass has run
Receiver == ReceiverType_new(ClassBody, wrapperMethods)

\* the three hand-written error methods
error_e(ls, ty, e) ==
    LET params == ("errorMsg" :> e)
    IN [dispatched |-> <<[name |-> "error", mapping |-> params]>>,
        out |-> dispatch(ls, ty, "error", params)]

error_0(ls, ty, strval) ==
    LET params == ("errorMsg" :> strval)
    IN [dispatched |-> <<[name |-> "error", mapping |-> params]>>,
        out |-> dispatch(ls, ty, "error", params)]

\* error_1 with id and errorCode exchanged
error_1Swapped(ls, ty, id, errorCode, errorMsg) ==
    LET params == ("id" :> errorCode) @@ ("errorCode" :> id) @@ ("errorMsg" :> errorMsg)
    IN [dispatched |-> <<[name |-> "error", mapping |-> params]>>,
        out |-> dispatch(ls, ty, "error", params)]

error_1(ls, ty, id, errorCode, errorMsg) ==
    LET params == ("id" :> id) @@ ("errorCode" :> errorCode) @@ ("errorMsg" :> errorMsg)
    IN [dispatched |-> <<[name |-> "error", mapping |-> params]>>,
        out |-> dispatch(ls, ty, "error", params)]

\* @overloaded: the most specific registered signature that the runtime
\* kinds of the arguments match, else the undecorated error(self, e)
Resolve(args) ==
    IF Len(args) = 1 /\ args[1].kind = "str" THEN "error_0"
    ELSE IF Len(args) = 3 /\ args[1].kind = "int" /\ args[2].kind = "int"
                          /\ args[3].kind = "str" THEN "error_1"
    ELSE "error"

error(ls, ty, args) ==
    CASE Resolve(args) = "error_0" -> error_0(ls, ty, args[1])
      [] Resolve(args) = "error_1" -> error_1(ls, ty, args[1], args[2], args[3])
      [] OTHER -> IF Len(args) = 1 THEN error_e(ls, ty, args[1])
                  ELSE [dispatched |-> <<>>, out |-> Ends(ls, "TypeError")]

\* ------------------------------------------------------------- call record
\* The most recent call on the Receiver: what was called, the Listener
\* Registry when it was entered, and what it did.
Call(op, listener, targs, name, args, mapping, before, dispatched, out, readd) ==
    [op |-> op, listener |-> listener, targs |-> targs, name |-> name,
     args |-> args, mapping |-> mapping, before |-> before,
     dispatched |-> dispatched, events |-> out.events,
     constructed |-> out.constructed, raised |-> out.raised, readd |-> readd]

KeysOf(ts) == {key(ts[i]) : i \in 1..Len(ts)}
Present(ls, k, l) == k \in DOMAIN ls /\ Contains(ls[k], l)

\* keys from which the call just before, an unregister of this listener,
\* removed it
JustRemoved(listener) ==
    IF last.op \in {"unregister", "unregisterAll"} /\ last.listener = listener
    THEN {k \in KeysOf(last.targs) : Present(last.before, k, listener)}
    ELSE {}

\* ------------------------------------------------------------------ actions
ListenersArgs == {None, Some(EmptyMap), Some(("TickPrice" :> <<1>>))}

AllPlain == [l \in Listeners |-> Plain]

\* a second Receiver: whether its listeners attribute is the very mapping
\* object of the first one, its own mapping if not, and what it held when
\* it was constructed
Peer(alias, ls, initial) == [alias |-> alias, ls |-> ls, initial |-> initial]
PeerAlone == Peer(FALSE, EmptyMap, EmptyMap)

\* callers of register: where each stands in the method
Callers == {"a", "b"}
Outside == [pc |-> "outside", listener |-> 0, mtype |-> StrObj(""), overlapped |-> FALSE]
NoCallers == [c \in Callers |-> Outside]

\* Receiver(listeners=la, types=ta) of the class cls, with listeners that
\* behave as bh says
Setup(la, ta, bh, cls) ==
    /\ listeners = Receiver_init(la, ta).listeners
    /\ types = Receiver_init(la, ta).types
    /\ regOrder = Receiver_init(la, ta).listeners
    /\ last = Call("init", 0, <<>>, "", <<>>, EmptyMap,
                   Receiver_init(la, ta).listeners, <<>>, NoEffect, {})
    /\ behav = bh
    /\ methods = cls
    /\ supplied = ta

Init ==
    /\ \E la \in ListenersArgs : Setup(la, None, AllPlain, Receiver)
    /\ peer = PeerAlone
    /\ threads = NoCallers

Register(l, ts) ==
    /\ listeners' = register(listeners, l, ts)
    /\ regOrder' = orderFold(regOrder, l, ts, TRUE)
    /\ last' = Call("register", l, ts, "", <<>>, EmptyMap, listeners, <<>>, NoEffect,
                    JustRemoved(l) \cap KeysOf(ts))
    /\ UNCHANGED env

RegisterAll(l, order) ==
    /\ listeners' = registerAll(listeners, types, l, order)
    /\ regOrder' = orderFold(regOrder, l, ValuesOf(types, order), TRUE)
    /\ last' = Call("registerAll", l, ValuesOf(types, order), "", <<>>, EmptyMap,
                    listeners, <<>>, NoEffect,
                    JustRemoved(l) \cap KeysOf(ValuesOf(types, order)))
    /\ UNCHANGED env

Unregister(l, ts) ==
    \E res \in {unregister(listeners, l, ts)} :
       /\ listeners' = res.ls
       /\ regOrder' = orderFold(regOrder, l, ts, FALSE)
       /\ last' = Call("unregister", l, ts, "", <<>>, EmptyMap, listeners, <<>>,
                       Raised(res.raised), {})
       /\ UNCHANGED env

UnregisterAll(l, order) ==
    \E res \in {unregisterAll(listeners, types, l, order)} :
       /\ listeners' = res.ls
       /\ regOrder' = orderFold(regOrder, l, ValuesOf(types, order), FALSE)
       /\ last' = Call("unregisterAll", l, ValuesOf(types, order), "", <<>>, EmptyMap,
                       listeners, <<>>, Raised(res.raised), {})
       /\ UNCHANGED env

Dispatch(name, mapping) ==
    \E res \in {dispatch(listeners, types, name, mapping)} :
       /\ listeners' = res.ls
       /\ regOrder' = res.ro
       /\ last' = Call("dispatch", 0, <<>>, name, <<>>, mapping, listeners,
                       <<[name |-> name, mapping |-> mapping]>>, res, {})
       /\ UNCHANGED env

CallEntry(mname, args) ==
    /\ mname \in DOMAIN methods
    /\ methods[mname].kind = "generated"
    /\ \E res \in {inner(methods[mname], listeners, types, args)} :
          /\ listeners' = res.out.ls
          /\ regOrder' = res.out.ro
          /\ last' = Call("entry", 0, <<>>, mname, args, res.dispatched[1].mapping,
                          listeners, res.dispatched, res.out, {})
    /\ UNCHANGED env

CallError(args) ==
    /\ methods["error"].kind = "overloaded"
    /\ \E res \in {error(listeners, types, args)} :
          /\ listeners' = res.out.ls
          /\ regOrder' = res.out.ro
          /\ last' = Call("error", 0, <<>>, "error", args, EmptyMap, listeners,
                          res.dispatched, res.out, {})
    /\ UNCHANGED env

Next ==
    \/ \E l \in Listeners, ts \in TypeSeqs : Register(l, ts)
    \/ \E l \in Listeners : \E order \in values(types) : RegisterAll(l, order)
    \/ \E l \in Listeners, ts \in TypeSeqs : Unregister(l, ts)
    \/ \E l \in Listeners : \E order \in values(types) : UnregisterAll(l, order)
    \/ \E name \in Names, mapping \in Mappings : Dispatch(name, mapping)

Spec == Init /\ [][Next]_vars

\* the Receiver driven through its entry points
EntryNames == {wrapperMethods[i][1] : i \in 1..Len(wrapperMethods)} \cup {"error"}

NextSurface ==
    \/ \E l \in Listeners : \E order \in values(types) : RegisterAll(l, order)
    \/ \E l \in Listeners : \E order \in values(types) : UnregisterAll(l, order)
    \/ \E mname \in EntryNames, args \in ArgSeqs : CallEntry(mname, args)
    \/ \E args \in ArgSeqs : CallError(args)

SpecSurface == Init /\ [][NextSurface]_vars

\* the Receiver with listeners that may raise
RaiseBehaviours == {Plain, RaisesValueError, RaisesKeyError}
\* one argument tuple for every shape the entry points tell apart
FewArgs == {<<>>, <<IntVal(7)>>, <<StrVal("bad gateway")>>,
            <<IntVal(7), IntVal(502), StrVal("bad gateway")>>}

InitRaise ==
    /\ \E bh \in [Listeners -> RaiseBehaviours] : Setup(None, None, bh, Receiver)
    /\ peer = PeerAlone
    /\ threads = NoCallers

NextRaise ==
    \/ \E l \in Listeners : \E order \in values(types) : RegisterAll(l, order)
    \/ \E l \in Listeners : \E order \in values(types) : UnregisterAll(l, order)
    \/ \E name \in Names, mapping \in Mappings : Dispatch(name, mapping)
    \/ \E mname \in EntryNames, args \in FewArgs : CallEntry(mname, args)
    \/ \E args \in FewArgs : CallError(args)

SpecRaise == InitRaise /\ [][NextRaise]_vars

\* two Receivers; the calls go to the first one
PeerView == IF peer.alias THEN listeners ELSE peer.ls

InitPair ==
    /\ \E la \in ListenersArgs, pa \in ListenersArgs, same \in BOOLEAN :
          /\ same => (la = pa /\ la.given)
          /\ Setup(la, None, AllPlain, Receiver)
          /\ peer = Peer(same /\ Truthy(la), Receiver_init(pa, None).listeners,
                         Receiver_init(pa, None).listeners)
    /\ threads = NoCallers

SpecPair == InitPair /\ [][Next]_vars

\* the Receiver constructed with a Type Registry of its own
CustomTypes == ("tickPrice" :> TickPrice)
TypesArgs == {None, Some(EmptyMap), Some(CustomTypes)}

InitTypes ==
    /\ \E ta \in TypesArgs : Setup(None, ta, AllPlain, Receiver)
    /\ peer = PeerAlone
    /\ threads = NoCallers

SpecTypes == InitTypes /\ [][Next]_vars

\* the class Receiver built from a Callback Argument Table that may list
\* the name error itself
ErrorRow == <<"error", <<"id", "errorCode", "errorMsg">>>>
Tables == {wrapperMethods, Append(wrapperMethods, ErrorRow)}

InitClass ==
    /\ \E table \in Tables :
          Setup(None, None, AllPlain, ReceiverType_new(ClassBody, table))
    /\ peer = PeerAlone
    /\ threads = NoCallers

NextClass ==
    \/ \E l \in Listeners : \E order \in values(types) : RegisterAll(l, order)
    \/ \E l \in Listeners : \E order \in values(types) : UnregisterAll(l, order)
    \/ \E mname \in EntryNames, args \in FewArgs : CallEntry(mname, args)
    \/ \E args \in FewArgs : CallError(args)

SpecClass == InitClass /\ [][NextClass]_vars

\* the Receiver with listeners that call back into it during the fan-out
ReentrantBehaviours == {Plain, UnregistersItself, RegistersAgain}

InitReentrant ==
    /\ \E bh \in [Listeners -> ReentrantBehaviours] : Setup(None, None, bh, Receiver)
    /\ peer = PeerAlone
    /\ threads = NoCallers

NextReentrant ==
    \/ \E l \in Listeners : \E order \in values(types) : RegisterAll(l, order)
    \/ \E l \in Listeners : \E order \in values(types) : UnregisterAll(l, order)
    \/ \E name \in Names, mapping \in Mappings : Dispatch(name, mapping)

SpecReentrant == InitReentrant /\ [][NextReentrant]_vars

\* two callers inside register(L, T) of one Receiver, without a lock: the
\* statements of the loop body are steps of their own
registerSetdefault(ls, mtype) ==
    [x \in DOMAIN ls \cup {key(mtype)} |-> IF x \in DOMAIN ls THEN ls[x] ELSE <<>>]

\* membership test that always finds the listener absent
registerTestAlways(ls, listener, mtype) == TRUE

registerTest(ls, listener, mtype) == ~Contains(ls[key(mtype)], listener)

registerAppend(ls, listener, mtype) ==
    [ls EXCEPT ![key(mtype)] = Append(@, listener)]

\* the listener the callers register
TheListener == CHOOSE l \in Listeners : \A other \in Listeners : l <= other
ConcTypes == {TickPrice, Error}

\* caller c takes a step: every other caller that is inside a call has
\* been overlapped by it
Step(c, rec) ==
    [d \in Callers |->
        IF d = c THEN rec
        ELSE IF threads[d].pc # "outside" THEN [threads[d] EXCEPT !.overlapped = TRUE]
        ELSE threads[d]]

EnterRegister(c, l, t) ==
    /\ threads[c].pc = "outside"
    /\ listeners' = registerSetdefault(listeners, t)
    /\ threads' = Step(c, [threads[c] EXCEPT !.pc = "test", !.listener = l, !.mtype = t])
    /\ UNCHANGED <<types, regOrder, last, behav, methods, supplied, peer>>

TestStep(c) ==
    /\ threads[c].pc = "test"
    /\ threads' = Step(c, IF registerTest(listeners, threads[c].listener, threads[c].mtype)
                          THEN [threads[c] EXCEPT !.pc = "append"]
                          ELSE [Outside EXCEPT !.overlapped = threads[c].overlapped])
    /\ UNCHANGED <<listeners, types, regOrder, last, behav, methods, supplied, peer>>

AppendStep(c) ==
    /\ threads[c].pc = "append"
    /\ listeners' = registerAppend(listeners, threads[c].listener, threads[c].mtype)
    /\ regOrder' = orderAdd(regOrder, threads[c].listener, key(threads[c].mtype))
    /\ threads' = Step(c, [Outside EXCEPT !.overlapped = threads[c].overlapped])
    /\ UNCHANGED <<types, last, behav, methods, supplied, peer>>

\* a whole unregister call, between the steps of the others
UnregisterCall(c, l, t) ==
    /\ threads[c].pc = "outside"
    /\ listeners' = unregister(listeners, l, <<t>>).ls
    /\ regOrder' = orderFold(regOrder, l, <<t>>, FALSE)
    /\ threads' = Step(c, threads[c])
    /\ UNCHANGED <<types, last, behav, methods, supplied, peer>>

InitConc ==
    /\ Setup(None, None, AllPlain, Receiver)
    /\ peer = PeerAlone
    /\ threads = NoCallers

NextConc ==
    \/ \E c \in Callers, t \in ConcTypes : EnterRegister(c, TheListener, t)
    \/ \E c \in Callers : TestStep(c)
    \/ \E c \in Callers : AppendStep(c)
    \/ \E c \in Callers, t \in ConcTypes : UnregisterCall(c, TheListener, t)
    \/ \E name \in DOMAIN types : Dispatch(name, EmptyMap)

SpecConc == InitConc /\ [][NextConc]_vars

\* ============================================================== properties
Elems(sq) == {sq[i] : i \in 1..Len(sq)}
\* the listeners whose registration for key k is in effect
Registered(k) == IF k \in DOMAIN regOrder THEN Elems(regOrder[k]) ELSE {}
\* how often a dispatch invoked listener l
Calls(events, l) ==
    Cardinality({i \in 1..Len(events) : events[i].ev = "call" /\ events[i].listener = l})
Without(sq, l) == SelectSeq(sq, LAMBDA x : x # l)
Collection(ls, k) == IF k \in DOMAIN ls THEN ls[k] ELSE <<>>
AcceptedBy(mtype) == {m \in Mappings : Accepts(mtype, m)}

\* C1: a dispatch of a known name with a mapping its type accepts invokes
\* every listener registered for the type's key exactly once and no other
\* listener, each with the one message constructed from that type and the
\* supplied mapping.
C1_DispatchReachesRegistered ==
    (last.op = "dispatch" /\ last.name \in DOMAIN types
        /\ Accepts(types[last.name], last.mapping)) =>
       LET mtype == types[last.name]
           k == key(mtype)
       IN /\ last.raised = "none"
          /\ \A l \in Listeners :
                Calls(last.events, l) = IF l \in Registered(k) THEN 1 ELSE 0
          /\ Len(last.constructed) <= 1
          /\ (Registered(k) # {}) => Len(last.constructed) = 1
          /\ \A i \in 1..Len(last.events) :
                /\ last.events[i].msg = last.constructed[1]
                /\ last.events[i].msg.type = mtype.name
                /\ last.events[i].msg.fields = last.mapping

C1_Witness ==
    /\ last.op = "dispatch"
    /\ last.name = "error"
    /\ last.mapping # EmptyMap
    /\ Len(last.events) = 2
    /\ "TickPrice" \in DOMAIN listeners
    /\ Len(listeners["TickPrice"]) = 2

\* C2: no listener appears twice in the collection of a key, so a listener
\* registered again for a type is still invoked once per dispatch.
C2_NoDuplicateListener ==
    /\ \A k \in DOMAIN listeners : \A l \in Listeners : Count(listeners[k], l) <= 1
    /\ (last.op = "dispatch") => \A l \in Listeners : Calls(last.events, l) <= 1
    /\ (last.op = "register") =>
          \A n \in DOMAIN types :
             key(types[n]) \in KeysOf(last.targs) =>
                Calls(dispatch(listeners, types, n, EmptyMap).events, last.listener) = 1

C2_Witness ==
    /\ last.op = "register"
    /\ \E k \in KeysOf(last.targs) :
          /\ Present(last.before, k, last.listener)
          /\ Count(listeners[k], last.listener) = 1
          /\ \E n \in DOMAIN types : key(types[n]) = k

\* C3: within one dispatch the listeners are invoked in the order of their
\* registrations in effect, and an earlier listener has returned before a
\* later one is called.
C3_InvocationInRegistrationOrder ==
    (last.op = "dispatch" /\ last.name \in DOMAIN types
        /\ Accepts(types[last.name], last.mapping)
        /\ key(types[last.name]) \in DOMAIN regOrder) =>
       LET ro == regOrder[key(types[last.name])]
           ev == last.events
       IN \A i, j \in 1..Len(ro) :
             i < j =>
                \E a, b, c \in 1..Len(ev) :
                   /\ a < b /\ b < c
                   /\ ev[a].ev = "call" /\ ev[a].listener = ro[i]
                   /\ ev[b].ev = "return" /\ ev[b].listener = ro[i]
                   /\ ev[c].ev = "call" /\ ev[c].listener = ro[j]

C3_Witness ==
    /\ last.op = "dispatch"
    /\ Len(last.events) >= 4
    /\ last.events[1].listener = 2
    /\ last.events[3].listener = 1

\* C4: a dispatch of a known name whose key has no listener registered, be
\* it that the key never had one or that every listener was unregistered
\* again, constructs no message, invokes no listener and raises nothing,
\* for every mapping.
C4_SilentWithoutListeners ==
    (last.op = "dispatch" /\ last.name \in DOMAIN types
        /\ Registered(key(types[last.name])) = {}) =>
       /\ last.constructed = <<>>
       /\ last.events = <<>>
       /\ last.raised = "none"

\* C5: a dispatch of a name that the Type Registry does not hold invokes no
\* listener, constructs no message, raises nothing and leaves the Listener
\* Registry as it was, whatever is registered.
C5_UnknownNameIsSilent ==
    (last.op = "dispatch" /\ last.name \notin DOMAIN types) =>
       /\ last.events = <<>>
       /\ last.constructed = <<>>
       /\ last.raised = "none"
       /\ listeners = last.before

C5_Witness ==
    /\ last.op = "dispatch"
    /\ last.name \notin DOMAIN types
    /\ last.mapping # EmptyMap
    /\ \E k \in DOMAIN listeners : Len(listeners[k]) = 2
    /\ last.raised = "none"

C7_RegisterAllCoversEveryType ==
    /\ (last.op = "registerAll") =>
          /\ \A n \in DOMAIN types : \A m \in AcceptedBy(types[n]) :
                Calls(dispatch(listeners, types, n, m).events, last.listener) = 1
          /\ \A order \in values(types) :
                listeners = register(last.before, last.listener, ValuesOf(types, order))
    /\ (last.op = "unregisterAll") =>
          /\ \A n \in DOMAIN types : \A m \in Mappings :
                Calls(dispatch(listeners, types, n, m).events, last.listener) = 0
          /\ \A order \in values(types) :
                listeners = unregister(last.before, last.listener, ValuesOf(types, order)).ls
    /\ (last.op = "dispatch" /\ last.name \in DOMAIN types
           /\ Accepts(types[last.name], last.mapping)) =>
          \A l \in Listeners :
             (\A n \in DOMAIN types : l \in Registered(key(types[n])))
                => Calls(last.events, l) = 1

C7_Witness ==
    /\ last.op = "registerAll"
    /\ Present(last.before, "TickPrice", last.listener)
    /\ ~Present(last.before, "Error", last.listener)
    /\ Present(listeners, "Error", last.listener)
    /\ Len(listeners["TickPrice"]) = 2

ArgNamesOf(name) ==
    wrapperMethods[CHOOSE i \in 1..Len(wrapperMethods) : wrapperMethods[i][1] = name][2]

\* C9: every pair of the Callback Argument Table has a generated entry
\* point of its name; called with N values it makes one dispatch call under
\* that name whose mapping pairs the first min(N, declared) argument names
\* of that pair with the values at the same positions, and nothing else.
C9_EntryPointBindsPositionally ==
    /\ \A i \in 1..Len(wrapperMethods) :
          /\ wrapperMethods[i][1] \in DOMAIN Receiver
          /\ Receiver[wrapperMethods[i][1]].kind = "generated"
    /\ (last.op = "entry") =>
          LET an == ArgNamesOf(last.name)
              n == Min(Len(last.args), Len(an))
          IN /\ Len(last.dispatched) = 1
             /\ last.dispatched[1].name = last.name
             /\ DOMAIN last.dispatched[1].mapping = {an[i] : i \in 1..n}
             /\ \A i \in 1..n : last.dispatched[1].mapping[an[i]] = last.args[i]

C9_Witness ==
    /\ last.op = "entry"
    /\ last.name = "nextValidId"
    /\ Len(last.args) = 3
    /\ last.dispatched = <<[name |-> "nextValidId", mapping |-> ("orderId" :> last.args[1])]>>

\* the three declared shapes of the error callback
ShapeA(args) == Len(args) = 1 /\ args[1].kind # "str"
ShapeB(args) == Len(args) = 1 /\ args[1].kind = "str"
ShapeC(args) ==
    Len(args) = 3 /\ args[1].kind = "int" /\ args[2].kind = "int" /\ args[3].kind = "str"

\* C10: a call of the error entry point with a single value, a single string
\* or a triple (integer, integer, string) makes one dispatch call under the
\* name 'error', with the mapping {errorMsg} for the single shapes and
\* {id, errorCode, errorMsg} for the triple, and every listener of the error
\* type is invoked once with a message of those fields.
C10_ErrorShapesConverge ==
    (last.op = "error" /\ (ShapeA(last.args) \/ ShapeB(last.args) \/ ShapeC(last.args))) =>
       LET expected ==
              IF ShapeC(last.args)
              THEN [f \in {"id", "errorCode", "errorMsg"} |->
                      IF f = "id" THEN last.args[1]
                      ELSE IF f = "errorCode" THEN last.args[2] ELSE last.args[3]]
              ELSE [f \in {"errorMsg"} |-> last.args[1]]
       IN /\ last.dispatched = <<[name |-> "error", mapping |-> expected]>>
          /\ last.raised = "none"
          /\ ("error" \in DOMAIN types) =>
                \A l \in Listeners :
                   /\ Calls(last.events, l) =
                         IF l \in Registered(key(types["error"])) THEN 1 ELSE 0
                   /\ \A i \in 1..Len(last.events) :
                         /\ last.events[i].msg.type = types["error"].name
                         /\ last.events[i].msg.fields = expected

C10_Witness ==
    /\ last.op = "error"
    /\ ShapeC(last.args)
    /\ last.args[1] # last.args[2]
    /\ Len(last.events) = 4
    /\ last.events[1].msg.fields["id"] = last.args[1]

\* the position in collection coll of the first listener that raises
FirstRaising(coll) ==
    CHOOSE i \in 1..Len(coll) :
       /\ behav[coll[i]] # Plain
       /\ \A j \in 1..(i - 1) : behav[coll[j]] = Plain

\* C11: when the k-th listener of a fan-out raises, whatever it raises, the
\* failure reaches the caller of dispatch, the listeners before it have been
\* invoked once and have returned, those after it are not invoked, and the
\* Listener Registry is as before.
C11_ListenerFailurePropagates ==
    (last.op = "dispatch" /\ last.name \in DOMAIN types
        /\ Accepts(types[last.name], last.mapping)
        /\ key(types[last.name]) \in DOMAIN last.before
        /\ \E l \in Elems(last.before[key(types[last.name])]) : behav[l] # Plain) =>
       LET coll == last.before[key(types[last.name])]
           k == FirstRaising(coll)
       IN /\ last.raised = behav[coll[k]]
          /\ \A i \in 1..Len(coll) :
                Calls(last.events, coll[i]) = IF i <= k THEN 1 ELSE 0
          /\ \A i \in 1..(k - 1) : last.events[2 * i] = Event("return", coll[i], last.constructed[1])
          /\ Len(last.events) = 2 * k
          /\ listeners = last.before

C11_Witness ==
    /\ last.op = "dispatch"
    /\ last.raised = "KeyError"
    /\ Len(last.events) = 4
    /\ last.events[2].ev = "return"
    /\ last.events[4].ev = "KeyError"

\* C12: with a known name and a listener registered for its key, a mapping
\* that the constructor of the type rejects makes dispatch raise what the
\* constructor raised, of whatever kind, and no listener is invoked.
C12_ConstructionFailurePropagates ==
    (last.op = "dispatch" /\ last.name \in DOMAIN types
        /\ Registered(key(types[last.name])) # {}
        /\ ~Accepts(types[last.name], last.mapping)) =>
       /\ last.raised = ConstructFailure(types[last.name])
       /\ last.raised # "none"
       /\ last.events = <<>>
       /\ last.constructed = <<>>

C12_Witness ==
    /\ last.op = "dispatch"
    /\ last.name = "error"
    /\ last.mapping = ("tickerId" :> IntVal(7))
    /\ Len(Collection(listeners, "Error")) = 2
    /\ last.raised = "KeyError"

\* a type for the string that is its name, the name for a type
Swapped(obj) ==
    IF obj.hasName THEN StrObj(obj.name)
    ELSE IF \E n \in DOMAIN registry : registry[n].name = obj.str
         THEN registry[CHOOSE n \in DOMAIN registry : registry[n].name = obj.str]
         ELSE obj
SwappedAll(ts) == [i \in 1..Len(ts) |-> Swapped(ts[i])]

\* C13: a message type and the string of its name are interchangeable as
\* arguments of register and unregister: the call made with the one leaves
\* the Listener Registry, and so every later dispatch, as the call made with
\* the other would; what was registered by type is unregistered by name and
\* the reverse.
C13_TypeAndNameInterchangeable ==
    /\ \A l \in Listeners : \A n \in DOMAIN types :
          LET T == types[n]
              S == StrObj(T.name)
          IN /\ register(listeners, l, <<T>>) = register(listeners, l, <<S>>)
             /\ unregister(listeners, l, <<T>>) = unregister(listeners, l, <<S>>)
             /\ ~Present(unregister(register(listeners, l, <<T>>), l, <<S>>).ls, T.name, l)
             /\ ~Present(unregister(register(listeners, l, <<S>>), l, <<T>>).ls, T.name, l)
    /\ (last.op \in {"register", "unregister"}) =>
          LET other == IF last.op = "register"
                       THEN register(last.before, last.listener, SwappedAll(last.targs))
                       ELSE unregister(last.before, last.listener, SwappedAll(last.targs)).ls
          IN /\ listeners = other
             /\ \A n \in Names, m \in Mappings :
                   dispatch(other, types, n, m) = dispatch(listeners, types, n, m)

C13_Witness ==
    /\ last.op = "unregister"
    /\ last.targs = <<StrObj("TickPrice")>>
    /\ Present(last.before, key(TickPrice), last.listener)
    /\ ~Present(listeners, key(TickPrice), last.listener)
    /\ Present(listeners, key(Error), last.listener)

\* C14: two Receivers own their Listener Registries separately, however
\* they were constructed: after any calls on the first one, the second one,
\* which received no call, invokes on every dispatch the listeners it would
\* have invoked right after its construction.
C14_PeerRegistryUntouched ==
    \A n \in Names, m \in Mappings :
        dispatch(PeerView, types, n, m).events = dispatch(peer.initial, types, n, m).events

\* C15: a Receiver constructed with a Type Registry resolves names through
\* that registry alone, an empty one included: a dispatch of a name the
\* supplied registry lacks constructs nothing and invokes nobody, and
\* registerAll registers for the types of the supplied registry only; the
\* default registry is used when none was supplied.
C15_ResolvesThroughSupplied ==
    /\ supplied.given =>
          /\ (last.op = "dispatch" /\ last.name \notin DOMAIN supplied.val) =>
                (last.events = <<>> /\ last.constructed = <<>>)
          /\ last.op = "registerAll" =>
                KeysOf(last.targs) \subseteq {key(supplied.val[n]) : n \in DOMAIN supplied.val}
    /\ ~supplied.given => types = registry

\* C16: whatever the Callback Argument Table lists, a call of the entry
\* point error is served by the hand-written shape-resolving method: a call
\* with one value dispatches error with that value as errorMsg.
C16_ErrorStaysHandWritten ==
    (last.op \in {"entry", "error"} /\ last.name = "error") =>
        /\ last.op = "error"
        /\ methods["error"].kind = "overloaded"
        /\ Len(last.args) = 1 =>
              last.dispatched = <<[name |-> "error", mapping |-> ("errorMsg" :> last.args[1])]>>

\* C17: with listeners that do not call back into the Receiver, a call of
\* dispatch, of a generated entry point or of error leaves the Listener
\* Registry (keys, collections, order) as it was, whether the call fanned
\* out, did nothing or failed; and no call, of register, registerAll,
\* unregister or unregisterAll either, changes the Type Registry.
C17_DispatchOnlyReads ==
    /\ last.op \in {"dispatch", "entry", "error"} => listeners = last.before
    /\ types = Receiver_init(None, supplied).types

C17_Witness ==
    /\ last.op = "entry"
    /\ last.raised = RaisesValueError
    /\ Len(last.events) = 4
    /\ listeners = last.before
    /\ DOMAIN listeners = {key(TickPrice), key(Error)}

\* the listeners a dispatch invoked, in the order of the invocations
Invoked(events) ==
    LET calls == SelectSeq(events, LAMBDA e : e.ev = "call")
    IN [i \in 1..Len(calls) |-> calls[i].listener]

\* C18: the listeners invoked by one dispatch are the collection of the key
\* as it stood when the fan-out began, each once and in that order, also
\* when a listener unregisters itself, or unregisters and registers itself
\* again, for that key during the fan-out.
C18_FanoutOverSnapshot ==
    (last.op = "dispatch" /\ last.name \in DOMAIN types
        /\ Accepts(types[last.name], last.mapping)
        /\ key(types[last.name]) \in DOMAIN last.before) =>
       Invoked(last.events) = last.before[key(types[last.name])]

\* C19: register takes no lock.  With the membership test and the append as
\* separate steps, a listener is twice in a collection only after a call
\* that another caller's step overlapped, and never more often than there
\* are callers; run without interleaving the steps are the atomic register,
\* which never duplicates.  A dispatch invokes the listener as often as it
\* is in the collection.
C19_DuplicateNeedsOverlap ==
    /\ \A k \in DOMAIN listeners :
          /\ Count(listeners[k], TheListener) <= Cardinality(Callers)
          /\ Count(listeners[k], TheListener) > 1 => \E c \in Callers : threads[c].overlapped
    /\ \A t \in ConcTypes :
          LET made == registerSetdefault(listeners, t)
          IN registerOne(listeners, TheListener, t) =
                IF registerTest(made, TheListener, t)
                THEN registerAppend(made, TheListener, t) ELSE made
    /\ (last.op = "dispatch" /\ key(types[last.name]) \in DOMAIN last.before) =>
          Calls(last.events, TheListener) = Count(last.before[key(types[last.name])], TheListener)

C19_Witness ==
    /\ last.op = "dispatch"
    /\ Calls(last.events, TheListener) = 2
    /\ Count(listeners[key(types[last.name])], TheListener) = 2
    /\ \A c \in Callers : threads[c].pc = "outside"

====
